---- MODULE Spec2Model ----
(***************************************************************************)
(* A model of ble_gateway.py: the MessageBuffer (buffering / throttling),  *)
(* the PayloadFilter (whitelists), the BluetoothGateway run loop           *)
(* (detection callback, flush poll, shutdown drain), and the encoder       *)
(* methods of BLEMessage (binary reconstruction, CSV envelope).            *)
(*                                                                         *)
(* Strings the code transforms (addresses, UUID strings) are sequences of  *)
(* one-character strings, so that upper(), replace() and fromhex() are     *)
(* computed; strings the code only compares (names) are TLA+ strings.      *)
(* A Python dict is a sequence of <<key, value>> pairs with distinct keys, *)
(* in insertion order (dicts keep insertion order).  Time is counted in    *)
(* whole seconds.                                                          *)
(***************************************************************************)
EXTENDS Integers, Sequences, FiniteSets, TLC

VARIABLES
    publish_interval_sec,   \* MessageBuffer.publish_interval_sec
    max_buffer_size,        \* MessageBuffer.max_buffer_size
    throttle_control,       \* MessageBuffer.throttle_control
    buffer,                 \* MessageBuffer.buffer (dict values / list, in order)
    last_flush_time,        \* MessageBuffer.last_flush_time
    payload_filter,         \* BluetoothGateway.payload_filter (four whitelists)
    running,                \* BluetoothGateway.running
    stats,                  \* BluetoothGateway.stats
    pc,                     \* where main() / run() stands
    scanner,                \* the BleakScanner: "none", "started", "stopped"
    publisher,              \* the MQTTPublisher: "idle", "connected", "disconnected"
    now,                    \* the wall clock, time.time()
    sink,                   \* every publisher.publish() call, in order
    last_drain,             \* history: the last get_messages() call and its result
    added,                  \* history: the messages added since the last drain
    ndetect,                \* history: detection callbacks handled so far
    accept_call,            \* the last direct call of should_accept() and its result
    encode_call             \* the last direct call of an encoder method and its result

vars == <<publish_interval_sec, max_buffer_size, throttle_control, buffer,
          last_flush_time, payload_filter, running, stats, pc, scanner,
          publisher, now, sink, last_drain, added, ndetect, accept_call,
          encode_call>>

\* None where a string is optional (device.name); no device bears this name
None == "None"

\* None where an int is optional (tx_power): the value n is <<n>>
NoInt == << >>

\* None where a set is optional (a whitelist that is not configured): every
\* use of a whitelist starts with its truth value, where None and set() agree
NoSet == {}

----------------------------------------------------------------------------
(* Bounds of the model *)

\* detection callbacks in one run
MaxDetect == 2
\* the clock stops advancing here
MaxTime == 2

----------------------------------------------------------------------------
(* Program constants *)

DEFAULT_PUBLISH_INTERVAL == 0
DEFAULT_MAX_BUFFER_SIZE == 100
DEFAULT_THROTTLE_CONTROL == TRUE
BLE_UUID_TYPE_INCOMPLETE_128 == 6
BLE_TYPE_MANUFACTURER_DATA == 255
BLE_TYPE_SERVICE_DATA_16BIT == 22

----------------------------------------------------------------------------
(* Strings as character sequences *)

\* str.upper() on one character
UpperChar(c) ==
    CASE c = "a" -> "A" [] c = "b" -> "B" [] c = "c" -> "C"
      [] c = "d" -> "D" [] c = "e" -> "E" [] c = "f" -> "F"
      [] OTHER -> c

\* str.upper()
Upper(s) == [i \in 1..Len(s) |-> UpperChar(s[i])]

\* str.replace(ch, '')
Remove(s, ch) == SelectSeq(s, LAMBDA c : c # ch)

HexDigits == {"0", "1", "2", "3", "4", "5", "6", "7", "8", "9",
              "a", "b", "c", "d", "e", "f", "A", "B", "C", "D", "E", "F"}

\* bytes.fromhex(s) raises ValueError unless s is an even number of hex digits
FromHexRaises(s) == Len(s) % 2 = 1 \/ \E i \in 1..Len(s) : s[i] \notin HexDigits

\* len(bytes.fromhex(s)) when it does not raise
FromHexLen(s) == Len(s) \div 2

\* bytearray.append(n) raises ValueError unless 0 <= n < 256
AppendRaises(n) == n < 0 \/ n > 255

----------------------------------------------------------------------------
(* Data: devices and advertisements the scan source can deliver *)

ADDR_LOWER == <<"a", "a", ":", "b", "b", ":", "c", "c", ":", "d", "d", ":", "e", "e", ":", "f", "f">>
ADDR_UPPER == <<"A", "A", ":", "B", "B", ":", "C", "C", ":", "D", "D", ":", "E", "E", ":", "F", "F">>
ADDR_OTHER == <<"1", "1", ":", "2", "2", ":", "3", "3", ":", "4", "4", ":", "5", "5", ":", "6", "6">>
UUID_BATTERY == <<"0", "0", "0", "0", "1", "8", "0", "f", "-", "0", "0", "0", "0", "-", "1", "0", "0", "0", "-", "8", "0", "0", "0", "-", "0", "0", "8", "0", "5", "f", "9", "b", "3", "4", "f", "b">>
UUID_EDDYSTONE == <<"0", "0", "0", "0", "f", "e", "a", "a", "-", "0", "0", "0", "0", "-", "1", "0", "0", "0", "-", "8", "0", "0", "0", "-", "0", "0", "8", "0", "5", "f", "9", "b", "3", "4", "f", "b">>

\* company ids used in the data
APPLE == 76
NORDIC == 89

\* a service-data payload of an extended advertisement: with its 16 UUID
\* bytes and the type byte it no longer fits one length byte
BigData == [i \in 1..239 |-> 0]

\* the keys of a dict, dict.keys()
Keys(d) == {d[i][1] : i \in 1..Len(d)}

\* the elements of a list
Range(s) == {s[i] : i \in 1..Len(s)}

\* BLEDevice(address, name)
Device(address, name) == [address |-> address, name |-> name]

\* AdvertisementData
Advertisement(rssi, manufacturer_data, service_data, service_uuids, tx_power) ==
    [rssi |-> rssi, manufacturer_data |-> manufacturer_data,
     service_data |-> service_data, service_uuids |-> service_uuids,
     tx_power |-> tx_power]

\* what the scanner hands to the detection callback in the gateway runs
Detections ==
    { <<Device(ADDR_LOWER, "tag"),
        Advertisement(-67, << <<APPLE, <<1, 2, 3, 4>> >> >>, << >>,
                      <<UUID_EDDYSTONE>>, <<4>>)>>,
      <<Device(ADDR_OTHER, None),
        Advertisement(-80, << >>, << <<UUID_BATTERY, BigData>> >>, <<UUID_BATTERY>>, NoInt)>> }

----------------------------------------------------------------------------
(* BLEMessage *)

\* BLEMessage: the dataclass fields, and oid, the identity of the object
BLEMessage(oid, timestamp_ms, device, advertisement) ==
    [oid |-> oid,
     timestamp_ms |-> timestamp_ms,
     device_address |-> device.address,
     device_name |-> device.name,
     rssi |-> advertisement.rssi,
     manufacturer_data |-> advertisement.manufacturer_data,
     service_data |-> advertisement.service_data,
     service_uuids |-> advertisement.service_uuids,
     tx_power |-> advertisement.tx_power]

\* whether _reconstruct_advertising_data raises: a UUID string fromhex
\* rejects, or a record length that is no byte
ReconstructRaises(m) ==
    \/ \E i \in 1..Len(m.service_uuids) :
          FromHexRaises(Remove(m.service_uuids[i], "-"))
    \/ \E i \in 1..Len(m.manufacturer_data) :
          AppendRaises(1 + 2 + Len(m.manufacturer_data[i][2]))
    \/ \E i \in 1..Len(m.service_data) :
          \/ FromHexRaises(Remove(m.service_data[i][1], "-"))
          \/ AppendRaises(1 + FromHexLen(Remove(m.service_data[i][1], "-"))
                            + Len(m.service_data[i][2]))

\* whether to_gprp_format raises: only the reconstruction can
ToGprpRaises(m) == ReconstructRaises(m)

\* whether to_json raises: asdict, hex() and json.dumps accept every message
ToJsonRaises(m) == FALSE

----------------------------------------------------------------------------
(* MessageBuffer *)

\* a variant of Throttling that does not look at the interval
ThrottlingIgnoresInterval == throttle_control

\* the condition of __init__, add_message and get_messages: the buffer is a
\* dict keyed by device address
Throttling == throttle_control /\ publish_interval_sec > 0

\* a variant of DictSet that keeps the record a device already has
\* (dict.setdefault)
DictSetKeepFirst(buf, message) ==
    IF \E i \in 1..Len(buf) : buf[i].device_address = message.device_address
    THEN buf
    ELSE Append(buf, message)

\* self.buffer[message.device_address] = message: a dict keeps the position
\* of a key it already holds
DictSet(buf, message) ==
    IF \E i \in 1..Len(buf) : buf[i].device_address = message.device_address
    THEN [i \in 1..Len(buf) |->
            IF buf[i].device_address = message.device_address
            THEN message ELSE buf[i]]
    ELSE Append(buf, message)

\* a variant of add_message that always stores by device address
add_message_always_dict(message) == DictSet(buffer, message)

\* a variant of add_message that always appends
add_message_appends(message) == Append(buffer, message)

\* add_message: the buffer after the call
add_message(message) ==
    IF Throttling THEN DictSet(buffer, message) ELSE Append(buffer, message)

\* a variant of should_flush whose immediate mode waits for a full buffer
should_flush_when_full ==
    IF publish_interval_sec = 0
    THEN Len(buffer) >= max_buffer_size
    ELSE IF Len(buffer) >= max_buffer_size
         THEN TRUE
         ELSE IF now - last_flush_time >= publish_interval_sec
              THEN Len(buffer) > 0
              ELSE FALSE

\* a variant of should_flush that never looks at the clock: in windowed
\* mode only a full buffer is flushed
should_flush_ignores_clock ==
    IF publish_interval_sec = 0
    THEN Len(buffer) > 0
    ELSE Len(buffer) >= max_buffer_size

\* should_flush(), called at wall-clock time now
should_flush ==
    IF publish_interval_sec = 0
    THEN Len(buffer) > 0
    ELSE IF Len(buffer) >= max_buffer_size
         THEN TRUE
         ELSE IF now - last_flush_time >= publish_interval_sec
              THEN Len(buffer) > 0
              ELSE FALSE

\* get_messages: the list it returns (the buffer becomes empty and
\* last_flush_time the current time, see Drain)
get_messages == buffer

\* size()
size == Len(buffer)

----------------------------------------------------------------------------
(* PayloadFilter *)

\* Python truth value of an optional set: None and set() are false
TruthySet(x) == x # NoSet

\* Python truth value of an optional string: None and '' are false
TruthyStr(x) == x # None /\ x # ""

\* int(c, 16) of one hex digit
HexVal(c) ==
    CASE c = "0" -> 0 [] c = "1" -> 1 [] c = "2" -> 2 [] c = "3" -> 3
      [] c = "4" -> 4 [] c = "5" -> 5 [] c = "6" -> 6 [] c = "7" -> 7
      [] c = "8" -> 8 [] c = "9" -> 9
      [] c \in {"a", "A"} -> 10 [] c \in {"b", "B"} -> 11
      [] c \in {"c", "C"} -> 12 [] c \in {"d", "D"} -> 13
      [] c \in {"e", "E"} -> 14 [] c \in {"f", "F"} -> 15

\* the digits of a hex string, after an optional 0x prefix
HexBody(s) ==
    IF Len(s) >= 2 /\ s[1] = "0" /\ s[2] \in {"x", "X"}
    THEN SubSeq(s, 3, Len(s)) ELSE s

\* int(mid, 16) raises ValueError
IntHexRaises(s) ==
    HexBody(s) = << >> \/ \E i \in 1..Len(HexBody(s)) : HexBody(s)[i] \notin HexDigits

RECURSIVE HexDigitsValue(_)
HexDigitsValue(d) ==
    IF d = << >> THEN 0
    ELSE 16 * HexDigitsValue(SubSeq(d, 1, Len(d) - 1)) + HexVal(d[Len(d)])

\* int(mid, 16)
IntHex(s) == HexDigitsValue(HexBody(s))

\* a manufacturer id of the configuration: an int [int |-> n], or a
\* string [str |-> s]
IsStrId(mid) == "str" \in DOMAIN mid

\* _parse_manufacturer_ids raises ValueError
ParseManufacturerIdsRaises(manufacturer_ids) ==
    \E i \in 1..Len(manufacturer_ids) :
        IsStrId(manufacturer_ids[i]) /\ IntHexRaises(manufacturer_ids[i].str)

\* _parse_manufacturer_ids
parse_manufacturer_ids(manufacturer_ids) ==
    IF manufacturer_ids = << >> THEN NoSet
    ELSE { IF IsStrId(manufacturer_ids[i])
           THEN IntHex(manufacturer_ids[i].str) ELSE manufacturer_ids[i].int :
           i \in 1..Len(manufacturer_ids) }

\* set(...) or None
SetOrNone(S) == IF S = {} THEN NoSet ELSE S

\* PayloadFilter(...) as BluetoothGateway.__init__ builds it from the four
\* whitelists of the configuration (lists; [] when the key is absent)
PayloadFilter(config) ==
    [mac_whitelist |-> SetOrNone({Upper(a) : a \in Range(config.mac_whitelist)}),
     name_whitelist |-> SetOrNone(Range(config.name_whitelist)),
     manufacturer_id_whitelist |->
         parse_manufacturer_ids(config.manufacturer_id_whitelist),
     service_uuid_whitelist |-> SetOrNone(Range(config.service_uuid_whitelist))]

\* PayloadFilter.should_accept
should_accept(device, advertisement) ==
    IF ~ ( \/ TruthySet(payload_filter.mac_whitelist)
           \/ TruthySet(payload_filter.name_whitelist)
           \/ TruthySet(payload_filter.manufacturer_id_whitelist)
           \/ TruthySet(payload_filter.service_uuid_whitelist) )
    THEN TRUE
    ELSE IF TruthySet(payload_filter.mac_whitelist)
            /\ Upper(device.address) \in payload_filter.mac_whitelist
    THEN TRUE
    ELSE IF TruthySet(payload_filter.name_whitelist) /\ TruthyStr(device.name)
            /\ device.name \in payload_filter.name_whitelist
    THEN TRUE
    ELSE IF TruthySet(payload_filter.manufacturer_id_whitelist)
            /\ advertisement.manufacturer_data # << >>
            /\ \E mid \in Keys(advertisement.manufacturer_data) :
                   mid \in payload_filter.manufacturer_id_whitelist
    THEN TRUE
    ELSE IF TruthySet(payload_filter.service_uuid_whitelist)
            /\ advertisement.service_uuids # << >>
            /\ \E u \in Range(advertisement.service_uuids) :
                   u \in payload_filter.service_uuid_whitelist
    THEN TRUE
    ELSE FALSE

----------------------------------------------------------------------------
(* Configuration: load_config and the command-line overrides of main *)

\* a key the configuration file does not hold
Absent == [absent |-> TRUE]

\* JSON values of the configuration file
JInt(n) == [int |-> n]
JBool(b) == [bool |-> b]
JStr(s) == [str |-> s]

\* isinstance(v, int): a Python bool is an int
IsInt(v) == "int" \in DOMAIN v \/ "bool" \in DOMAIN v

\* isinstance(v, bool)
IsBool(v) == "bool" \in DOMAIN v

\* the number a JSON int or bool is
NumVal(v) == IF "bool" \in DOMAIN v THEN (IF v.bool THEN 1 ELSE 0) ELSE v.int

\* load_config raises ValueError on the buffer policy of the file
LoadConfigRaises(config) ==
    \/ /\ config.publish_interval_sec # Absent
       /\ (~IsInt(config.publish_interval_sec)
           \/ NumVal(config.publish_interval_sec) < 0)
    \/ /\ config.max_buffer_size # Absent
       /\ (~IsInt(config.max_buffer_size) \/ NumVal(config.max_buffer_size) < 1)
    \/ /\ config.throttle_control # Absent
       /\ ~IsBool(config.throttle_control)

\* config.get(key, default) for the numbers and flags of the policy
GetNum(v, default) == IF v = Absent THEN default ELSE NumVal(v)
GetBool(v, default) == IF v = Absent THEN default ELSE v.bool

\* main: the buffer policy after the command-line overrides, as
\* BluetoothGateway.__init__ reads it with its defaults.  An option that was
\* not given is << >>, a given value n is <<n>>.
OverriddenInterval(config, args) ==
    IF args.publish_interval # << >> THEN args.publish_interval[1]
    ELSE GetNum(config.publish_interval_sec, DEFAULT_PUBLISH_INTERVAL)

OverriddenThrottle(config, args) ==
    IF args.no_throttle THEN FALSE
    ELSE GetBool(config.throttle_control, DEFAULT_THROTTLE_CONTROL)

OverriddenBufferSize(config, args) ==
    IF args.buffer_size # << >> /\ args.buffer_size[1] # 0 THEN args.buffer_size[1]
    ELSE GetNum(config.max_buffer_size, DEFAULT_MAX_BUFFER_SIZE)

\* the buffer policies of the configuration files tried
FileConfigs ==
    [publish_interval_sec : {Absent, JInt(-1), JInt(0), JInt(2), JStr("2")},
     max_buffer_size : {JInt(0), JInt(1), JInt(2), JBool(TRUE)},
     throttle_control : {Absent, JBool(TRUE), JBool(FALSE), JInt(1)}]

\* the command lines tried
CliArgs ==
    [publish_interval : {<< >>, <<-1>>, <<0>>, <<2>>},
     no_throttle : BOOLEAN,
     buffer_size : {<< >>, <<-1>>, <<0>>, <<1>>, <<2>>}]

\* the whitelists of the configurations the gateway is run with
GatewayWhitelists ==
    { [mac_whitelist |-> << >>, name_whitelist |-> << >>,
       manufacturer_id_whitelist |-> << >>, service_uuid_whitelist |-> << >>],
      [mac_whitelist |-> << >>, name_whitelist |-> << >>,
       manufacturer_id_whitelist |-> <<JStr(<<"0", "x", "0", "0", "4", "C">>)>>,
       service_uuid_whitelist |-> << >>] }

----------------------------------------------------------------------------
(* BluetoothGateway *)

NoCall == [called |-> FALSE]
NoDrain == [kind |-> "none", messages |-> << >>, added |-> << >>, at |-> 0]

\* BluetoothGateway.__init__ on a loaded configuration: the MessageBuffer
\* (empty, its timer started), the PayloadFilter, the counters
Construct(config, args, whitelists) ==
    /\ publish_interval_sec = OverriddenInterval(config, args)
    /\ max_buffer_size = OverriddenBufferSize(config, args)
    /\ throttle_control = OverriddenThrottle(config, args)
    /\ buffer = << >>
    /\ last_flush_time = now
    /\ payload_filter = PayloadFilter(whitelists)
    /\ running = FALSE
    /\ stats = [devices_seen |-> 0, messages_filtered |-> 0,
                messages_buffered |-> 0, messages_published |-> 0,
                publish_errors |-> 0, buffer_flushes |-> 0]

\* main up to the call of run(): a configuration load_config accepts, the
\* overrides, the gateway built
Init ==
    /\ now = 0
    /\ \E config \in FileConfigs, args \in CliArgs, whitelists \in GatewayWhitelists :
          /\ ~LoadConfigRaises(config)
          /\ ~ParseManufacturerIdsRaises(whitelists.manufacturer_id_whitelist)
          /\ Construct(config, args, whitelists)
    /\ pc = "run"
    /\ scanner = "none"
    /\ publisher = "idle"
    /\ sink = << >>
    /\ last_drain = NoDrain
    /\ added = << >>
    /\ ndetect = 0
    /\ accept_call = NoCall
    /\ encode_call = NoCall

\* run, lines 829-864: the broker is reached, the scanner started
Connect ==
    /\ pc = "run"
    /\ publisher' = "connected"
    /\ running' = TRUE
    /\ scanner' = "started"
    /\ pc' = "loop"
    /\ UNCHANGED <<publish_interval_sec, max_buffer_size, throttle_control, buffer,
                   last_flush_time, payload_filter, stats, now, sink, last_drain,
                   added, ndetect, accept_call, encode_call>>

\* run, lines 830-832: the broker is not reached, run returns
ConnectFails ==
    /\ pc = "run"
    /\ pc' = "exited"
    /\ UNCHANGED <<publish_interval_sec, max_buffer_size, throttle_control, buffer,
                   last_flush_time, payload_filter, running, stats, scanner,
                   publisher, now, sink, last_drain, added, ndetect, accept_call, encode_call>>

\* signal_handler
Signal ==
    /\ pc \in {"loop", "sleep"}
    /\ running
    /\ running' = FALSE
    /\ UNCHANGED <<publish_interval_sec, max_buffer_size, throttle_control, buffer,
                   last_flush_time, payload_filter, stats, pc, scanner, publisher,
                   now, sink, last_drain, added, ndetect, accept_call, encode_call>>

\* the clock advances while run sleeps
Tick ==
    /\ pc = "sleep"
    /\ now < MaxTime
    /\ now' = now + 1
    /\ UNCHANGED <<publish_interval_sec, max_buffer_size, throttle_control, buffer,
                   last_flush_time, payload_filter, running, stats, pc, scanner,
                   publisher, sink, last_drain, added, ndetect, accept_call, encode_call>>

\* _create_ble_message: the message of the detection handled now
create_ble_message(device, advertisement) ==
    BLEMessage(ndetect + 1, now * 1000, device, advertisement)

\* a variant of _detection_callback that counts the device as seen before it
\* filters
detection_callback_counts_first(device, advertisement) ==
    /\ ndetect' = ndetect + 1
    /\ IF ~should_accept(device, advertisement)
       THEN /\ stats' = [stats EXCEPT !.devices_seen = @ + 1,
                                      !.messages_filtered = @ + 1]
            /\ UNCHANGED <<buffer, added>>
       ELSE LET ble_message == create_ble_message(device, advertisement) IN
            /\ buffer' = add_message(ble_message)
            /\ added' = Append(added, ble_message)
            /\ stats' = [stats EXCEPT !.devices_seen = @ + 1,
                                      !.messages_buffered = @ + 1]
    /\ UNCHANGED <<publish_interval_sec, max_buffer_size, throttle_control,
                   last_flush_time, payload_filter, running, pc, scanner,
                   publisher, now, sink, last_drain, accept_call, encode_call>>

\* a variant of _detection_callback that does not count the message it
\* buffers
detection_callback_uncounted_add(device, advertisement) ==
    /\ ndetect' = ndetect + 1
    /\ IF ~should_accept(device, advertisement)
       THEN /\ stats' = [stats EXCEPT !.messages_filtered = @ + 1]
            /\ UNCHANGED <<buffer, added>>
       ELSE LET ble_message == create_ble_message(device, advertisement) IN
            /\ buffer' = add_message(ble_message)
            /\ added' = Append(added, ble_message)
            /\ stats' = [stats EXCEPT !.devices_seen = @ + 1]
    /\ UNCHANGED <<publish_interval_sec, max_buffer_size, throttle_control,
                   last_flush_time, payload_filter, running, pc, scanner,
                   publisher, now, sink, last_drain, accept_call, encode_call>>

\* a variant of _detection_callback that returns on a rejected detection
\* without counting it
detection_callback_silent_reject(device, advertisement) ==
    /\ ndetect' = ndetect + 1
    /\ IF ~should_accept(device, advertisement)
       THEN UNCHANGED <<stats, buffer, added>>
       ELSE LET ble_message == create_ble_message(device, advertisement) IN
            /\ buffer' = add_message(ble_message)
            /\ added' = Append(added, ble_message)
            /\ stats' = [stats EXCEPT !.devices_seen = @ + 1,
                                      !.messages_buffered = @ + 1]
    /\ UNCHANGED <<publish_interval_sec, max_buffer_size, throttle_control,
                   last_flush_time, payload_filter, running, pc, scanner,
                   publisher, now, sink, last_drain, accept_call, encode_call>>

\* _detection_callback
detection_callback(device, advertisement) ==
    /\ ndetect' = ndetect + 1
    /\ IF ~should_accept(device, advertisement)
       THEN /\ stats' = [stats EXCEPT !.messages_filtered = @ + 1]
            /\ UNCHANGED <<buffer, added>>
       ELSE LET ble_message == create_ble_message(device, advertisement) IN
            /\ buffer' = add_message(ble_message)
            /\ added' = Append(added, ble_message)
            /\ stats' = [stats EXCEPT !.devices_seen = @ + 1,
                                      !.messages_buffered = @ + 1]
    /\ UNCHANGED <<publish_interval_sec, max_buffer_size, throttle_control,
                   last_flush_time, payload_filter, running, pc, scanner,
                   publisher, now, sink, last_drain, accept_call, encode_call>>

\* the scanner calls the callback from the event loop: while run awaits its
\* sleep, or awaits scanner.stop()
Detect ==
    /\ scanner = "started"
    /\ pc \in {"sleep", "stopping"}
    /\ ndetect < MaxDetect
    /\ \E d \in Detections : detection_callback(d[1], d[2])

\* a variant of Drain that returns the messages and keeps them buffered
DrainKeepsBuffer(kind) ==
    /\ buffer' = buffer
    /\ last_flush_time' = now
    /\ added' = << >>
    /\ last_drain' = [kind |-> kind, messages |-> get_messages,
                      added |-> added, at |-> now]

\* a variant of Drain that returns at once, the timer untouched, when the
\* buffer is empty
DrainKeepsTimerWhenEmpty(kind) ==
    /\ buffer' = << >>
    /\ last_flush_time' = IF buffer = << >> THEN last_flush_time ELSE now
    /\ added' = << >>
    /\ last_drain' = [kind |-> kind, messages |-> get_messages,
                      added |-> added, at |-> now]

\* a variant of Drain in which the last add falls between the read of the
\* buffer and its reset: the message is neither returned nor kept
DrainDropsLatest(kind) ==
    /\ buffer' = << >>
    /\ last_flush_time' = now
    /\ added' = << >>
    /\ last_drain' = [kind |-> kind,
                      messages |-> SubSeq(get_messages, 1, Len(get_messages) - 1),
                      added |-> added, at |-> now]

\* get_messages called at time now: the buffer emptied, the timer reset
Drain(kind) ==
    /\ buffer' = << >>
    /\ last_flush_time' = now
    /\ added' = << >>
    /\ last_drain' = [kind |-> kind, messages |-> get_messages,
                      added |-> added, at |-> now]

\* a variant of after_to_gprp_format: to_gprp_format stores the address
\* without its colons and in upper case in the message itself
after_to_gprp_format_in_place(m) ==
    [m EXCEPT !.device_address = Upper(Remove(m.device_address, ":"))]

\* the message after to_json has run on it: asdict(self) is a copy, the hex
\* strings are stored in the copy
after_to_json(m) == m

\* the message after to_gprp_format (and _reconstruct_advertising_data) has
\* run on it: both only read its fields
after_to_gprp_format(m) == m

\* the publish() calls of a loop over messages: one per message whose
\* rendering does not raise, with the message as the rendering left it and
\* the sink's answer ok[i]
Published(messages, fmt, ok) ==
    LET rendered == SelectSeq([i \in 1..Len(messages) |-> i], LAMBDA i :
                       IF fmt = "gprp" THEN ~ToGprpRaises(messages[i])
                       ELSE ~ToJsonRaises(messages[i]))
    IN [k \in 1..Len(rendered) |->
          [fmt |-> fmt,
           message |-> IF fmt = "gprp" THEN after_to_gprp_format(messages[rendered[k]])
                       ELSE after_to_json(messages[rendered[k]]),
           ok |-> ok[rendered[k]]]]

\* the answers of the sink to a loop over messages; a message that is not
\* handed to the sink has none (FALSE)
SinkAnswers(messages, fmt) ==
    { ok \in [1..Len(messages) -> BOOLEAN] :
        \A i \in 1..Len(messages) :
            (IF fmt = "gprp" THEN ToGprpRaises(messages[i])
             ELSE ToJsonRaises(messages[i])) => ~ok[i] }

\* a variant of _flush_buffer whose except clause does not count the error
flush_buffer_uncounted_raise ==
    IF ~should_flush
    THEN UNCHANGED <<buffer, last_flush_time, stats, sink, last_drain, added>>
    ELSE /\ Drain("flush")
         /\ IF get_messages = << >>
            THEN UNCHANGED <<stats, sink>>
            ELSE \E ok \in SinkAnswers(get_messages, "gprp") :
                   LET npub == Cardinality({i \in 1..Len(get_messages) : ok[i]})
                       nfail == Cardinality({i \in 1..Len(get_messages) :
                                   ~ok[i] /\ ~ToGprpRaises(get_messages[i])})
                   IN
                   /\ sink' = sink \o Published(get_messages, "gprp", ok)
                   /\ stats' = [stats EXCEPT
                                  !.buffer_flushes = @ + 1,
                                  !.messages_published = @ + npub,
                                  !.publish_errors = @ + nfail]

\* a variant of _flush_buffer that puts the messages the sink refused back
\* into the buffer
flush_buffer_requeues_failed ==
    IF ~should_flush
    THEN UNCHANGED <<buffer, last_flush_time, stats, sink, last_drain, added>>
    ELSE /\ last_flush_time' = now
         /\ added' = << >>
         /\ last_drain' = [kind |-> "flush", messages |-> get_messages,
                           added |-> added, at |-> now]
         /\ IF get_messages = << >>
            THEN buffer' = << >> /\ UNCHANGED <<stats, sink>>
            ELSE \E ok \in SinkAnswers(get_messages, "gprp") :
                   LET npub == Cardinality({i \in 1..Len(get_messages) : ok[i]})
                       calls == Published(get_messages, "gprp", ok)
                       refused == SelectSeq(calls, LAMBDA c : ~c.ok)
                   IN
                   /\ buffer' = [i \in 1..Len(refused) |-> refused[i].message]
                   /\ sink' = sink \o calls
                   /\ stats' = [stats EXCEPT
                                  !.buffer_flushes = @ + 1,
                                  !.messages_published = @ + npub,
                                  !.publish_errors = @ + Len(get_messages) - npub]

\* the messages of a list before the first one whose CSV rendering raises
BeforeFirstRaise(messages) ==
    SubSeq(messages, 1,
           IF \E i \in 1..Len(messages) : ToGprpRaises(messages[i])
           THEN (CHOOSE i \in 1..Len(messages) :
                    /\ ToGprpRaises(messages[i])
                    /\ \A j \in 1..(i - 1) : ~ToGprpRaises(messages[j])) - 1
           ELSE Len(messages))

\* a variant of _flush_buffer whose try statement encloses the for loop: the
\* first rendering that raises ends the publishing of the batch
flush_buffer_stops_at_raise ==
    IF ~should_flush
    THEN UNCHANGED <<buffer, last_flush_time, stats, sink, last_drain, added>>
    ELSE /\ Drain("flush")
         /\ IF get_messages = << >>
            THEN UNCHANGED <<stats, sink>>
            ELSE LET sent == BeforeFirstRaise(get_messages) IN
                 \E ok \in SinkAnswers(sent, "gprp") :
                   LET npub == Cardinality({i \in 1..Len(sent) : ok[i]}) IN
                   /\ sink' = sink \o Published(sent, "gprp", ok)
                   /\ stats' = [stats EXCEPT
                                  !.buffer_flushes = @ + 1,
                                  !.messages_published = @ + npub,
                                  !.publish_errors = @ + Len(sent) - npub
                                      + (IF Len(sent) < Len(get_messages) THEN 1 ELSE 0)]

\* a variant of _flush_buffer whose should_flush() restarts the timer when
\* it answers no
flush_buffer_check_resets_timer ==
    IF ~should_flush
    THEN /\ last_flush_time' = now
         /\ UNCHANGED <<buffer, stats, sink, last_drain, added>>
    ELSE /\ Drain("flush")
         /\ IF get_messages = << >>
            THEN UNCHANGED <<stats, sink>>
            ELSE \E ok \in SinkAnswers(get_messages, "gprp") :
                   LET npub == Cardinality({i \in 1..Len(get_messages) : ok[i]}) IN
                   /\ sink' = sink \o Published(get_messages, "gprp", ok)
                   /\ stats' = [stats EXCEPT
                                  !.buffer_flushes = @ + 1,
                                  !.messages_published = @ + npub,
                                  !.publish_errors = @ + Len(get_messages) - npub]

\* _flush_buffer
flush_buffer ==
    IF ~should_flush
    THEN UNCHANGED <<buffer, last_flush_time, stats, sink, last_drain, added>>
    ELSE /\ Drain("flush")
         /\ IF get_messages = << >>
            THEN UNCHANGED <<stats, sink>>
            ELSE \E ok \in SinkAnswers(get_messages, "gprp") :
                   LET npub == Cardinality({i \in 1..Len(get_messages) : ok[i]}) IN
                   /\ sink' = sink \o Published(get_messages, "gprp", ok)
                   /\ stats' = [stats EXCEPT
                                  !.buffer_flushes = @ + 1,
                                  !.messages_published = @ + npub,
                                  !.publish_errors = @ + Len(get_messages) - npub]

\* run, lines 878-883: the loop is entered or its sleep ends, self.running
\* is true, _flush_buffer is called and the next sleep starts (no callback
\* runs in between: there is no await)
Poll ==
    /\ pc \in {"loop", "sleep"}
    /\ running
    /\ flush_buffer
    /\ pc' = "sleep"
    /\ UNCHANGED <<publish_interval_sec, max_buffer_size, throttle_control,
                   payload_filter, running, scanner, publisher, now, ndetect,
                   accept_call, encode_call>>

\* a variant of Shutdown that drains only when should_flush() says so
ShutdownIfShouldFlush ==
    /\ pc \in {"loop", "sleep"}
    /\ ~running
    /\ IF should_flush
       THEN /\ Drain("shutdown")
            /\ \E ok \in SinkAnswers(get_messages, "json") :
                  sink' = sink \o Published(get_messages, "json", ok)
       ELSE UNCHANGED <<buffer, last_flush_time, added, last_drain, sink>>
    /\ pc' = "stopping"
    /\ UNCHANGED <<publish_interval_sec, max_buffer_size, throttle_control,
                   payload_filter, running, stats, scanner, publisher, now,
                   ndetect, accept_call, encode_call>>

\* run, lines 878 and 903-912: the loop is entered or its sleep ends,
\* self.running is false, the remaining messages are published and
\* scanner.stop() is awaited
Shutdown ==
    /\ pc \in {"loop", "sleep"}
    /\ ~running
    /\ Drain("shutdown")
    /\ \E ok \in SinkAnswers(get_messages, "json") :
          sink' = sink \o Published(get_messages, "json", ok)
    /\ pc' = "stopping"
    /\ UNCHANGED <<publish_interval_sec, max_buffer_size, throttle_control,
                   payload_filter, running, stats, scanner, publisher, now,
                   ndetect, accept_call, encode_call>>

\* a variant of Release that first publishes again the messages the sink
\* refused in the final drain
ReleaseRetriesFailed ==
    /\ pc = "stopping"
    /\ LET n == Len(last_drain.messages)
           final == SubSeq(sink, Len(sink) - n + 1, Len(sink))
       IN sink' = sink \o SelectSeq(final, LAMBDA c : ~c.ok)
    /\ scanner' = "stopped"
    /\ publisher' = "disconnected"
    /\ pc' = "stopped"
    /\ UNCHANGED <<publish_interval_sec, max_buffer_size, throttle_control, buffer,
                   last_flush_time, payload_filter, running, stats, now,
                   last_drain, added, ndetect, accept_call, encode_call>>

\* run, lines 914-916: scanner.stop() returns, the publisher disconnects
Release ==
    /\ pc = "stopping"
    /\ scanner' = "stopped"
    /\ publisher' = "disconnected"
    /\ pc' = "stopped"
    /\ UNCHANGED <<publish_interval_sec, max_buffer_size, throttle_control, buffer,
                   last_flush_time, payload_filter, running, stats, now, sink,
                   last_drain, added, ndetect, accept_call, encode_call>>

Next ==
    \/ Connect
    \/ ConnectFails
    \/ Signal
    \/ Tick
    \/ Detect
    \/ Poll
    \/ Shutdown
    \/ Release

Spec == Init /\ [][Next]_vars

\* main run with a buffer policy load_config accepts
InitLive == Init /\ publish_interval_sec >= 0 /\ max_buffer_size >= 1

\* the gateway on an event loop that runs the run coroutine: a sleep that
\* has been started ends (the loop test, then the poll or the final drain,
\* follows), the awaited scanner.stop() returns, and the clock advances
\* while run sleeps
SpecLive ==
    /\ InitLive
    /\ [][Next]_vars
    /\ WF_vars(Poll)
    /\ WF_vars(Shutdown)
    /\ WF_vars(Release)
    /\ WF_vars(Tick)

----------------------------------------------------------------------------
(* PayloadFilter.should_accept on its own: filters built from configured
   whitelists, called on devices and advertisements *)

\* the whitelists of the configurations the filter is built from
FilterWhitelists ==
    [mac_whitelist : {<< >>, <<ADDR_LOWER>>},
     name_whitelist : {<< >>, <<"tag">>, <<"">>},
     manufacturer_id_whitelist :
         {<< >>, <<JInt(APPLE)>>, <<JStr(<<"0", "x", "0", "0", "4", "C">>)>>,
          <<JStr(<<"z", "z">>)>>},
     service_uuid_whitelist : {<< >>, <<UUID_EDDYSTONE>>}]

\* the devices the filter is called on
FilterDevices ==
    {Device(a, n) : a \in {ADDR_LOWER, ADDR_UPPER, ADDR_OTHER},
                    n \in {None, "", "tag", "other"}}

\* the advertisements the filter is called on
FilterAdvertisements ==
    {Advertisement(-67, m, << >>, u, NoInt) :
        m \in { << >>, << <<APPLE, <<1>> >> >>, << <<NORDIC, <<2>> >> >>,
                << <<NORDIC, <<2>> >>, <<APPLE, <<1>> >> >> },
        u \in { << >>, <<UUID_EDDYSTONE>>, <<UUID_BATTERY>>,
                <<UUID_BATTERY, UUID_EDDYSTONE>> }}

\* a gateway built with the default buffer policy and one of the filters
InitFilter ==
    /\ now = 0
    /\ \E whitelists \in FilterWhitelists :
          /\ ~ParseManufacturerIdsRaises(whitelists.manufacturer_id_whitelist)
          /\ Construct([publish_interval_sec |-> Absent, max_buffer_size |-> Absent,
                        throttle_control |-> Absent],
                       [publish_interval |-> << >>, no_throttle |-> FALSE,
                        buffer_size |-> << >>],
                       whitelists)
    /\ pc = "run"
    /\ scanner = "none"
    /\ publisher = "idle"
    /\ sink = << >>
    /\ last_drain = NoDrain
    /\ added = << >>
    /\ ndetect = 0
    /\ accept_call = NoCall
    /\ encode_call = NoCall

\* payload_filter.should_accept(device, advertisement) is called
FilterCall ==
    /\ \E device \in FilterDevices, advertisement \in FilterAdvertisements :
          accept_call' = [called |-> TRUE, device |-> device,
                          advertisement |-> advertisement,
                          result |-> should_accept(device, advertisement)]
    /\ UNCHANGED <<publish_interval_sec, max_buffer_size, throttle_control, buffer,
                   last_flush_time, payload_filter, running, stats, pc, scanner,
                   publisher, now, sink, last_drain, added, ndetect, encode_call>>

NextFilter == FilterCall

SpecFilter == InitFilter /\ [][NextFilter]_vars

----------------------------------------------------------------------------
(* BLEMessage: the binary reconstruction and the CSV envelope.  A byte is a
   number in 0..255, bytes a sequence of them.  timestamp_ms of the encoder's
   events is written in decimal digits: a wall-clock time in milliseconds has
   13 digits, more than the integers of the checker hold. *)

\* bytes.fromhex(s), for s it does not reject
FromHex(s) ==
    [i \in 1..(Len(s) \div 2) |-> 16 * HexVal(s[2 * i - 1]) + HexVal(s[2 * i])]

\* b[::-1]
Reverse(b) == [i \in 1..Len(b) |-> b[Len(b) + 1 - i]]

\* _reconstruct_advertising_data, lines 110-121: the packet after the loop
\* over service_uuids
RECURSIVE ServiceUuidsLoop(_, _)
ServiceUuidsLoop(packet, service_uuids) ==
    IF service_uuids = << >> THEN packet
    ELSE LET uuid_hex == Remove(Head(service_uuids), "-")
             uuid_bytes == FromHex(uuid_hex)
             uuid_bytes_le == Reverse(uuid_bytes)
         IN ServiceUuidsLoop(
                packet \o <<17, BLE_UUID_TYPE_INCOMPLETE_128>> \o uuid_bytes_le,
                Tail(service_uuids))

\* _reconstruct_advertising_data, lines 124-132: the packet after the loop
\* over manufacturer_data.items()
RECURSIVE ManufacturerDataLoop(_, _)
ManufacturerDataLoop(packet, items) ==
    IF items = << >> THEN packet
    ELSE LET company_id == Head(items)[1]
             data == Head(items)[2]
             length == 1 + 2 + Len(data)
         IN ManufacturerDataLoop(
                packet \o <<length, BLE_TYPE_MANUFACTURER_DATA,
                            company_id % 256, (company_id \div 256) % 256>> \o data,
                Tail(items))

\* _reconstruct_advertising_data, lines 135-144: the packet after the loop
\* over service_data.items()
RECURSIVE ServiceDataLoop(_, _)
ServiceDataLoop(packet, items) ==
    IF items = << >> THEN packet
    ELSE LET uuid_hex == Remove(Head(items)[1], "-")
             uuid_bytes == FromHex(uuid_hex)
             data == Head(items)[2]
             length == 1 + Len(uuid_bytes) + Len(data)
         IN ServiceDataLoop(
                packet \o <<length, BLE_TYPE_SERVICE_DATA_16BIT>>
                       \o Reverse(uuid_bytes) \o data,
                Tail(items))

\* a variant of _reconstruct_advertising_data that writes the manufacturer
\* data before the service UUIDs
reconstruct_manufacturer_first(m) ==
    ServiceDataLoop(
        ServiceUuidsLoop(ManufacturerDataLoop(<< >>, m.manufacturer_data),
                         m.service_uuids),
        m.service_data)

\* _reconstruct_advertising_data, when it does not raise
reconstruct_advertising_data(m) ==
    ServiceDataLoop(
        ManufacturerDataLoop(ServiceUuidsLoop(<< >>, m.service_uuids),
                             m.manufacturer_data),
        m.service_data)

\* the digits of bytes.hex().upper() and of str(int)
HEX_UPPER == <<"0", "1", "2", "3", "4", "5", "6", "7", "8", "9",
               "A", "B", "C", "D", "E", "F">>

\* bytes.hex().upper()
HexUpper(b) ==
    [i \in 1..(2 * Len(b)) |->
        IF i % 2 = 1 THEN HEX_UPPER[(b[(i + 1) \div 2] \div 16) + 1]
                     ELSE HEX_UPPER[(b[i \div 2] % 16) + 1]]

\* str(n) for n >= 0
RECURSIVE StrNat(_)
StrNat(n) ==
    IF n < 10 THEN <<HEX_UPPER[n + 1]>>
    ELSE StrNat(n \div 10) \o <<HEX_UPPER[(n % 10) + 1]>>

\* str(n), as an f-string writes an int
Str(n) == IF n < 0 THEN <<"-">> \o StrNat(-n) ELSE StrNat(n)

\* a variant of FormatSeconds that does not pad the milliseconds with zeros
FormatSecondsUnpadded(timestamp_ms) ==
    IF Len(timestamp_ms) <= 3 THEN <<"0", ".">> \o timestamp_ms
    ELSE SubSeq(timestamp_ms, 1, Len(timestamp_ms) - 3) \o <<".">>
         \o SubSeq(timestamp_ms, Len(timestamp_ms) - 2, Len(timestamp_ms))

\* f"{timestamp_ms / 1000.0:.3f}" for a timestamp_ms >= 0 given by its
\* decimal digits (a double holds the quotient of a 13-digit timestamp to
\* well under half a millisecond, so the three digits printed are exact)
FormatSeconds(timestamp_ms) ==
    LET padded == IF Len(timestamp_ms) < 4
                  THEN [i \in 1..(4 - Len(timestamp_ms)) |-> "0"] \o timestamp_ms
                  ELSE timestamp_ms
    IN SubSeq(padded, 1, Len(padded) - 3) \o <<".">>
       \o SubSeq(padded, Len(padded) - 2, Len(padded))

\* json.dumps of a str, between its quotes: the quote and the backslash
\* are escaped (the strings tried hold no control or non-ASCII character)
RECURSIVE JsonEscape(_)
JsonEscape(s) ==
    IF s = << >> THEN << >>
    ELSE IF Len(s) = 1
    THEN (IF s[1] = "\"" THEN <<"\\", "\"">>
          ELSE IF s[1] = "\\" THEN <<"\\", "\\">>
          ELSE s)
    ELSE JsonEscape(SubSeq(s, 1, Len(s) \div 2))
         \o JsonEscape(SubSeq(s, Len(s) \div 2 + 1, Len(s)))

\* the characters of the literals of to_gprp_format
GPRP_PREFIX == <<"$", "G", "P", "R", "P", ",">>
JSON_OPEN == <<"{", "\"", "d", "a", "t", "a", "\"", ":", "[", "\"">>
JSON_MIDDLE == <<"\"", "]", ",", "\"", "m", "q", "t", "t", "_", "t", "o", "p", "i", "c", "\"", ":", "\"">>
JSON_CLOSE == <<"\"", "}">>

\* the gprp_line of to_gprp_format
gprp_line(m, gateway_mac) ==
    LET advertising_hex == HexUpper(reconstruct_advertising_data(m))
        timestamp_sec == FormatSeconds(m.timestamp_ms)
        device_mac == Upper(Remove(m.device_address, ":"))
    IN GPRP_PREFIX \o gateway_mac \o <<",">> \o device_mac \o <<",">>
       \o Str(m.rssi) \o <<",">> \o advertising_hex \o <<",">> \o timestamp_sec

\* to_gprp_format, when it does not raise: the JSON text
to_gprp_format(m, gateway_mac, topic) ==
    JSON_OPEN \o JsonEscape(gprp_line(m, gateway_mac)) \o JSON_MIDDLE
    \o JsonEscape(topic) \o JSON_CLOSE

----------------------------------------------------------------------------
(* The encoder methods of BLEMessage on their own: called on messages built
   from advertisements *)

\* a 16-bit UUID string, and a string that is no UUID
UUID_SHORT == <<"1", "8", "0", "f">>
UUID_MALFORMED == <<"n", "o", "t", "-", "a", "-", "u", "u", "i", "d">>

\* a company id above 255
WIDE_ID == 4660

\* a manufacturer payload that no longer fits one length byte with its
\* company id and type byte
BigManufacturerData == [i \in 1..253 |-> 0]

\* the gateway id and the topics the envelope is rendered with
GATEWAY_MAC == <<"A", "1", "B", "2", "C", "3", "D", "4", "E", "5", "F", "6">>
DEFAULT_TOPIC == <<"b", "l", "e", "/", "g", "a", "t", "e", "w", "a", "y", "/", "d", "a", "t", "a">>
QUOTED_TOPIC == <<"b", "l", "e", "/", "\"", "x", "\"">>

\* the timestamps of the events, in decimal digits
EncoderTimestamps ==
    { <<"0">>, <<"5">>, <<"1", "5", "0", "0">>,
      <<"1", "7", "0", "0", "0", "0", "0", "0", "0", "0", "0", "0", "0">> }

\* the messages the encoder methods are called on
EncoderEvents ==
    { BLEMessage(0, ts, Device(a, None), Advertisement(r, md, sd, su, NoInt)) :
        ts \in EncoderTimestamps,
        a \in {ADDR_LOWER, ADDR_UPPER},
        r \in {-67, 0},
        md \in { << >>,
                 << <<APPLE, <<1, 2, 3, 4>> >> >>,
                 << <<APPLE, <<1>> >>, <<NORDIC, << >> >> >>,
                 << <<NORDIC, << >> >>, <<APPLE, <<1>> >> >>,
                 << <<WIDE_ID, <<255>> >> >>,
                 << <<APPLE, BigManufacturerData>> >> },
        sd \in { << >>,
                 << <<UUID_SHORT, <<9, 8>> >> >>,
                 << <<UUID_BATTERY, <<1>> >>, <<UUID_EDDYSTONE, <<2>> >> >>,
                 << <<UUID_EDDYSTONE, <<2>> >>, <<UUID_BATTERY, <<1>> >> >>,
                 << <<UUID_BATTERY, BigData>> >> },
        su \in { << >>, <<UUID_EDDYSTONE>>, <<UUID_BATTERY, UUID_EDDYSTONE>>,
                 <<UUID_EDDYSTONE, UUID_EDDYSTONE>>, <<UUID_SHORT>>,
                 <<UUID_MALFORMED>> } }

\* a gateway built with the default buffer policy and no filter, and a
\* message no encoder method was called on yet
InitEncoder ==
    /\ now = 0
    /\ Construct([publish_interval_sec |-> Absent, max_buffer_size |-> Absent,
                  throttle_control |-> Absent],
                 [publish_interval |-> << >>, no_throttle |-> FALSE,
                  buffer_size |-> << >>],
                 [mac_whitelist |-> << >>, name_whitelist |-> << >>,
                  manufacturer_id_whitelist |-> << >>,
                  service_uuid_whitelist |-> << >>])
    /\ pc = "run"
    /\ scanner = "none"
    /\ publisher = "idle"
    /\ sink = << >>
    /\ last_drain = NoDrain
    /\ added = << >>
    /\ ndetect = 0
    /\ accept_call = NoCall
    /\ \E m \in EncoderEvents : encode_call = [called |-> FALSE, message |-> m]

\* _reconstruct_advertising_data() is called on the message
ReconstructCall ==
    /\ LET m == encode_call.message IN
          encode_call' = [called |-> TRUE, method |-> "reconstruct", message |-> m,
                          gateway_mac |-> << >>, topic |-> << >>,
                          raises |-> ReconstructRaises(m),
                          result |-> IF ReconstructRaises(m) THEN << >>
                                     ELSE reconstruct_advertising_data(m)]
    /\ UNCHANGED <<publish_interval_sec, max_buffer_size, throttle_control, buffer,
                   last_flush_time, payload_filter, running, stats, pc, scanner,
                   publisher, now, sink, last_drain, added, ndetect, accept_call>>

\* to_gprp_format(gateway_mac, topic) is called on the message
GprpCall ==
    /\ \E topic \in {DEFAULT_TOPIC, QUOTED_TOPIC} :
          LET m == encode_call.message IN
          encode_call' = [called |-> TRUE, method |-> "to_gprp_format", message |-> m,
                          gateway_mac |-> GATEWAY_MAC, topic |-> topic,
                          raises |-> ToGprpRaises(m),
                          result |-> IF ToGprpRaises(m) THEN << >>
                                     ELSE to_gprp_format(m, GATEWAY_MAC, topic)]
    /\ UNCHANGED <<publish_interval_sec, max_buffer_size, throttle_control, buffer,
                   last_flush_time, payload_filter, running, stats, pc, scanner,
                   publisher, now, sink, last_drain, added, ndetect, accept_call>>

NextEncoder ==
    \/ ReconstructCall
    \/ GprpCall

SpecEncoder == InitEncoder /\ [][NextEncoder]_vars

----------------------------------------------------------------------------
(* Steps and sets the properties speak of *)

\* a step in which add_message is called
AddStep == Len(added') = Len(added) + 1

\* a step in which get_messages is called
DrainStep == (Poll /\ should_flush) \/ Shutdown

\* the index in a list of messages of the last one from a device address
LastFrom(messages, address) ==
    CHOOSE i \in 1..Len(messages) :
        /\ messages[i].device_address = address
        /\ \A j \in (i + 1)..Len(messages) : messages[j].device_address # address

\* the messages of a list that come from a device address
From(messages, address) ==
    {i \in 1..Len(messages) : messages[i].device_address = address}

----------------------------------------------------------------------------
(* MessageBuffer: C1 - C5 *)

\* C1: with publish_interval_sec = 0, whatever throttle_control and
\* max_buffer_size are, should_flush() is true in the state right after any
\* add_message, and false whenever the buffer is empty.
C1_ImmediateMode ==
    /\ [](publish_interval_sec = 0 /\ size = 0 => ~should_flush)
    /\ [][publish_interval_sec = 0 /\ AddStep => should_flush']_vars

\* C1 happens: in immediate mode a message was added to a buffer that is not
\* full, and should_flush() is true
C1_Witness ==
    /\ publish_interval_sec = 0
    /\ added # << >>
    /\ size < max_buffer_size
    /\ should_flush

\* C2: with throttle_control and publish_interval_sec > 0, whenever messages
\* of one device address were added since the previous drain (two or more
\* included), the drain returns exactly one message of that address, and it
\* is the one added last, with all its fields.
C2_ThrottleKeepsLatest ==
    Throttling =>
        \A i \in 1..Len(last_drain.added) :
            LET address == last_drain.added[i].device_address IN
            /\ Cardinality(From(last_drain.messages, address)) = 1
            /\ \E k \in 1..Len(last_drain.messages) :
                  last_drain.messages[k] =
                      last_drain.added[LastFrom(last_drain.added, address)]

\* C2 happens: two messages of one address were added and then drained by a
\* flush of a throttling buffer
C2_Witness ==
    /\ Throttling
    /\ last_drain.kind = "flush"
    /\ \E i, j \in 1..Len(last_drain.added) :
          /\ i < j
          /\ last_drain.added[i].device_address = last_drain.added[j].device_address
          /\ last_drain.added[i] # last_drain.added[j]

\* C3: for every policy, a drain returns at most as many messages as were
\* added since the previous drain, and size() = 0 in the state right after it.
C3_DrainBoundedAndEmpties ==
    /\ [](Len(last_drain.messages) <= Len(last_drain.added))
    /\ [][DrainStep => size' = 0 /\ Len(last_drain'.messages) <= Len(added)]_vars

\* C3 happens: a drain has returned two messages and the buffer is empty
C3_Witness ==
    /\ last_drain.kind # "none"
    /\ Len(last_drain.messages) = 2
    /\ size = 0

\* C4: whenever the buffered count is at least max_buffer_size,
\* should_flush() is true, whatever time has elapsed since last_flush_time.
C4_FullBufferFlushes == size >= max_buffer_size => should_flush

\* C4 for the policies load_config accepts (max_buffer_size >= 1)
C4_FullBufferFlushesValidSize ==
    max_buffer_size >= 1 /\ size >= max_buffer_size => should_flush

\* C5: with publish_interval_sec > 0, should_flush() is true exactly when the
\* buffer is full, or the interval has elapsed and the buffer is not empty;
\* in particular it is false for an empty buffer, and false for a buffer
\* that is not full before the interval has elapsed.
C5_WindowedFlush ==
    publish_interval_sec > 0 =>
        /\ should_flush <=>
              \/ size >= max_buffer_size
              \/ (now - last_flush_time >= publish_interval_sec /\ size > 0)
        /\ size = 0 => ~should_flush
        /\ (size < max_buffer_size /\ now - last_flush_time < publish_interval_sec)
              => ~should_flush

\* C5 without its clause on the empty buffer
C5_WindowedFlushIff ==
    publish_interval_sec > 0 =>
        /\ should_flush <=>
              \/ size >= max_buffer_size
              \/ (now - last_flush_time >= publish_interval_sec /\ size > 0)
        /\ (size < max_buffer_size /\ now - last_flush_time < publish_interval_sec)
              => ~should_flush

----------------------------------------------------------------------------
(* PayloadFilter: C6 *)

\* none of the four whitelists is configured
NoCriteria ==
    /\ payload_filter.mac_whitelist = NoSet
    /\ payload_filter.name_whitelist = NoSet
    /\ payload_filter.manufacturer_id_whitelist = NoSet
    /\ payload_filter.service_uuid_whitelist = NoSet

\* the criteria of C6 other than the name, on a device and an advertisement
OtherCriterionHolds(device, advertisement) ==
    \/ Upper(device.address) \in payload_filter.mac_whitelist
    \/ Keys(advertisement.manufacturer_data)
          \cap payload_filter.manufacturer_id_whitelist # {}
    \/ Range(advertisement.service_uuids)
          \cap payload_filter.service_uuid_whitelist # {}

\* with only the vendor-id set configured, an advertisement whose vendor
\* data is empty or disjoint from the set is rejected
VendorOnlyRejects ==
    ( /\ accept_call.called
      /\ payload_filter.manufacturer_id_whitelist # NoSet
      /\ payload_filter.mac_whitelist = NoSet
      /\ payload_filter.name_whitelist = NoSet
      /\ payload_filter.service_uuid_whitelist = NoSet
      /\ Keys(accept_call.advertisement.manufacturer_data)
            \cap payload_filter.manufacturer_id_whitelist = {} )
    => ~accept_call.result

\* C6: should_accept returns true for every input when no whitelist is
\* configured; otherwise it returns true exactly when the upper-cased address
\* is in the address set, or the name is present (not None) and in the name
\* set, or a company id of the manufacturer data is in the id set, or a
\* service UUID is in the UUID set; with only the id set configured, empty or
\* disjoint manufacturer data is rejected.
C6_FilterAccepts ==
    /\ accept_call.called =>
          IF NoCriteria THEN accept_call.result
          ELSE accept_call.result <=>
                 \/ OtherCriterionHolds(accept_call.device, accept_call.advertisement)
                 \/ /\ accept_call.device.name # None
                    /\ accept_call.device.name \in payload_filter.name_whitelist
    /\ VendorOnlyRejects

\* C6 with a name that is present and not empty
C6_FilterAcceptsNonEmptyName ==
    /\ accept_call.called =>
          IF NoCriteria THEN accept_call.result
          ELSE accept_call.result <=>
                 \/ OtherCriterionHolds(accept_call.device, accept_call.advertisement)
                 \/ /\ accept_call.device.name # None
                    /\ accept_call.device.name # ""
                    /\ accept_call.device.name \in payload_filter.name_whitelist
    /\ VendorOnlyRejects

----------------------------------------------------------------------------
(* BluetoothGateway: C7 - C10 *)

\* the publish() calls made in a step
NewCalls == SubSeq(sink', Len(sink) + 1, Len(sink'))

\* a step that makes no publish() call, or only adds calls to the record
SinkGrows == Len(sink') >= Len(sink) /\ SubSeq(sink', 1, Len(sink)) = sink

\* a step in which _flush_buffer drains
FlushStep == Poll /\ should_flush

\* the messages of a list whose CSV rendering does not raise
Rendered(messages) == SelectSeq(messages, LAMBDA m : ~ToGprpRaises(m))

\* C7: on each detection, if the filter rejects it messages_filtered grows by
\* one and nothing else changes; if the filter accepts it devices_seen grows
\* by one, one message with the detection-time timestamp is added to the
\* buffer, and messages_buffered grows by one.
C7_DetectionCallback ==
    [][ndetect' # ndetect =>
        \E d \in Detections :
            IF ~should_accept(d[1], d[2])
            THEN /\ stats' = [stats EXCEPT !.messages_filtered = @ + 1]
                 /\ UNCHANGED <<buffer, last_flush_time, added, sink, last_drain,
                                running, pc, scanner, publisher, now>>
            ELSE LET m == BLEMessage(ndetect', now * 1000, d[1], d[2]) IN
                 /\ stats' = [stats EXCEPT !.devices_seen = @ + 1,
                                           !.messages_buffered = @ + 1]
                 /\ m \in Range(buffer') /\ m \notin Range(buffer)
                 /\ Range(buffer') \ {m} \subseteq Range(buffer)
                 /\ added' = Append(added, m)
                 /\ UNCHANGED <<last_flush_time, sink, last_drain, running, pc,
                                scanner, publisher, now>>
      ]_vars

\* C7 happens: one detection was rejected and another accepted and buffered
C7_Witness ==
    /\ stats.messages_filtered = 1
    /\ stats.devices_seen = 1
    /\ stats.messages_buffered = 1
    /\ size = 1

\* C8 as claimed: in a normal flush every drained message is rendered as CSV
\* envelope and handed to the sink, and for each of them messages_published
\* (the sink accepted) or publish_errors (the sink refused) grows by one.
C8_EveryDrainedPublished ==
    [][FlushStep =>
        /\ Len(NewCalls) = Len(buffer)
        /\ \A i \in 1..Len(NewCalls) :
              NewCalls[i].fmt = "gprp" /\ NewCalls[i].message = buffer[i]
        /\ stats'.messages_published = stats.messages_published
              + Cardinality({i \in 1..Len(NewCalls) : NewCalls[i].ok})
        /\ stats'.publish_errors = stats.publish_errors
              + Cardinality({i \in 1..Len(NewCalls) : ~NewCalls[i].ok})
      ]_vars

\* C8 amended: in a normal flush every drained message whose CSV rendering
\* does not raise is handed to the sink in that format, in order; for each
\* drained message exactly one of messages_published (the sink accepted) or
\* publish_errors (the sink refused, or the rendering raised) grows by one;
\* no other step changes the two counters, so their sum is the number of
\* messages drained by normal flushes.
C8_DrainedPublishedOrCounted ==
    [][ /\ SinkGrows
        /\ IF FlushStep
           THEN /\ Len(NewCalls) = Len(Rendered(buffer))
                /\ \A i \in 1..Len(NewCalls) :
                      /\ NewCalls[i].fmt = "gprp"
                      /\ NewCalls[i].message = Rendered(buffer)[i]
                /\ stats'.messages_published = stats.messages_published
                      + Cardinality({i \in 1..Len(NewCalls) : NewCalls[i].ok})
                /\ stats'.publish_errors = stats.publish_errors
                      + Cardinality({i \in 1..Len(NewCalls) : ~NewCalls[i].ok})
                      + (Len(buffer) - Len(Rendered(buffer)))
                /\ stats'.messages_published + stats'.publish_errors =
                      stats.messages_published + stats.publish_errors + Len(buffer)
           ELSE /\ stats'.messages_published = stats.messages_published
                /\ stats'.publish_errors = stats.publish_errors
      ]_vars

\* C8 happens: a normal flush drained two messages, one published and one
\* whose rendering raised
C8_Witness ==
    /\ last_drain.kind = "flush"
    /\ Len(last_drain.messages) = 2
    /\ stats.messages_published = 1
    /\ stats.publish_errors = 1
    /\ Len(sink) = 1
    /\ sink[1].fmt = "gprp" /\ sink[1].ok

\* C9: buffer_flushes grows by one in every get_messages call that returns a
\* message (by _flush_buffer or at shutdown), and in no other step.
C9_FlushCountPerNonEmptyDrain ==
    [][stats'.buffer_flushes = stats.buffer_flushes
          + (IF DrainStep /\ buffer # << >> THEN 1 ELSE 0)]_vars

\* C9 for the drains of _flush_buffer alone
C9_FlushCountPerNonEmptyFlush ==
    [][stats'.buffer_flushes = stats.buffer_flushes
          + (IF FlushStep /\ buffer # << >> THEN 1 ELSE 0)]_vars

\* C10: leaving the loop, run calls get_messages once, whatever should_flush()
\* says, renders each message it returns as full JSON and hands it to the
\* sink; the scanner and the publisher are released only after that; no
\* drain follows; and until then the sink has received CSV envelopes only.
C10_ShutdownDrain ==
    /\ [][pc' = "stopping" /\ pc # "stopping" =>
            /\ last_drain' = [kind |-> "shutdown", messages |-> buffer,
                              added |-> added, at |-> now]
            /\ buffer' = << >>
            /\ Len(NewCalls) = Len(buffer)
            /\ \A i \in 1..Len(NewCalls) :
                  NewCalls[i].fmt = "json" /\ NewCalls[i].message = buffer[i]
            /\ scanner' = "started" /\ publisher' = "connected"
         ]_vars
    /\ [][(pc \in {"stopping", "stopped"}) =>
            (last_drain' = last_drain /\ sink' = sink)]_vars
    /\ [](pc \in {"run", "loop", "sleep"} =>
            \A i \in 1..Len(sink) : sink[i].fmt = "gprp")
    /\ []((scanner = "stopped" \/ publisher = "disconnected") =>
            /\ last_drain.kind = "shutdown"
            /\ Len(sink) >= Len(last_drain.messages)
            /\ \A i \in 1..Len(last_drain.messages) :
                  LET call == sink[Len(sink) - Len(last_drain.messages) + i] IN
                  call.fmt = "json" /\ call.message = last_drain.messages[i])

\* C10 happens: the gateway has stopped after a final drain that returned a
\* message for which should_flush() was false (no time had elapsed and the
\* buffer was not full)
C10_Witness ==
    /\ pc = "stopped"
    /\ scanner = "stopped" /\ publisher = "disconnected"
    /\ publish_interval_sec > 0
    /\ last_drain.kind = "shutdown"
    /\ Len(last_drain.messages) = 1
    /\ max_buffer_size > 1
    /\ last_drain.at = 0
    /\ sink[Len(sink)].fmt = "json"

----------------------------------------------------------------------------
(* BluetoothGateway: C11 - C13 *)

\* the messages of a list whose JSON rendering does not raise
RenderedJson(messages) == SelectSeq(messages, LAMBDA m : ~ToJsonRaises(m))

\* C11: no message is handed to the sink twice, whether by normal flushes or
\* by the shutdown drain; a message that was handed to the sink (accepted or
\* refused) is not in the buffer; and the only message that ever enters the
\* buffer is the one built by the detection being handled.
C11_AtMostOnce ==
    /\ [](\A i, j \in 1..Len(sink) :
              i # j => sink[i].message.oid # sink[j].message.oid)
    /\ [](\A i \in 1..Len(buffer), j \in 1..Len(sink) :
              buffer[i].oid # sink[j].message.oid)
    /\ [][\A i \in 1..Len(buffer') :
              \/ buffer'[i] \in Range(buffer)
              \/ (ndetect' = ndetect + 1 /\ buffer'[i].oid = ndetect')]_vars

\* C11 happens: the sink refused a message in a normal flush, and later
\* messages were published by a normal flush and by the shutdown drain, the
\* buffer being empty in the end
C11_Witness ==
    /\ Len(sink) = 2
    /\ ~sink[1].ok /\ sink[1].fmt = "gprp"
    /\ sink[2].fmt = "json"
    /\ sink[1].message.device_address = sink[2].message.device_address
    /\ stats.publish_errors = 1
    /\ pc = "stopped"
    /\ buffer = << >>

\* C12: a message whose rendering raises in a drained batch does not stop
\* the loop (after a normal flush run sleeps and polls again, after the
\* shutdown drain run goes on to release); the messages of the batch whose
\* rendering does not raise are all handed to the sink, in order, and no
\* other; and publish_errors grows by one for each message of a normal
\* flush whose rendering raised (beside one for each the sink refused).
C12_EncodingFaultIsolated ==
    /\ [][FlushStep =>
            /\ pc' = "sleep" /\ running' = running
            /\ [i \in 1..Len(NewCalls) |-> NewCalls[i].message] = Rendered(buffer)
            /\ stats'.publish_errors = stats.publish_errors
                  + (Len(buffer) - Len(Rendered(buffer)))
                  + Cardinality({i \in 1..Len(NewCalls) : ~NewCalls[i].ok})
         ]_vars
    /\ [][Shutdown =>
            /\ pc' = "stopping"
            /\ [i \in 1..Len(NewCalls) |-> NewCalls[i].message] = RenderedJson(buffer)
            /\ stats'.publish_errors = stats.publish_errors
                  + (Len(buffer) - Len(RenderedJson(buffer)))
         ]_vars

\* C12 happens: a normal flush drained a message whose rendering raised and
\* then one that was handed to the sink, and the loop sleeps, still running
C12_Witness ==
    /\ last_drain.kind = "flush"
    /\ Len(last_drain.messages) = 2
    /\ ToGprpRaises(last_drain.messages[1])
    /\ ~ToGprpRaises(last_drain.messages[2])
    /\ Len(sink) = 1
    /\ sink[1].message = last_drain.messages[2]
    /\ stats.publish_errors >= 1
    /\ pc = "sleep" /\ running

\* C13: whenever the gateway runs (run was entered: the scanner started, or
\* the loop reached), its buffer policy is valid: the interval is not
\* negative, max_buffer_size is at least 1, throttle_control is a boolean.
C13_ConfigFaultsFatal ==
    (pc # "run" /\ pc # "exited") =>
        /\ publish_interval_sec >= 0
        /\ max_buffer_size >= 1
        /\ throttle_control \in BOOLEAN

----------------------------------------------------------------------------
(* BLEMessage: C14 - C17 *)

\* _reconstruct_advertising_data was called and returned
ReconstructDone ==
    encode_call.called /\ encode_call.method = "reconstruct" /\ ~encode_call.raises

\* to_gprp_format was called and returned
GprpDone ==
    encode_call.called /\ encode_call.method = "to_gprp_format" /\ ~encode_call.raises

\* the number of bytes a UUID string stands for
UuidBytes(uuid_str) == FromHexLen(Remove(uuid_str, "-"))

\* the bytes each record of a message takes in the blob (length byte, type
\* byte, payload), in the order service ids, vendor data, service data
RecordSizes(m) ==
    [k \in 1..Len(m.service_uuids) |-> 2 + UuidBytes(m.service_uuids[k])]
    \o [k \in 1..Len(m.manufacturer_data) |-> 2 + 2 + Len(m.manufacturer_data[k][2])]
    \o [k \in 1..Len(m.service_data) |->
            2 + UuidBytes(m.service_data[k][1]) + Len(m.service_data[k][2])]

\* the type each record of a message has, in the same order
RecordTypes(m) ==
    [k \in 1..Len(m.service_uuids) |-> 6]
    \o [k \in 1..Len(m.manufacturer_data) |-> 255]
    \o [k \in 1..Len(m.service_data) |-> 22]

\* the sum of the first k numbers of a list
RECURSIVE SumTo(_, _)
SumTo(s, k) == IF k = 0 THEN 0 ELSE s[k] + SumTo(s, k - 1)

\* the bytes of the blob before its k-th record
Offset(m, k) == SumTo(RecordSizes(m), k - 1)

\* C14: the blob is exactly the records of the service ids, one per entry
\* in list order (each 0x06 with the bytes of its UUID reversed), then the
\* 0xFF records of the vendor data, then the 0x16 records of the service
\* data, and nothing after them; a message with none of the three yields
\* the empty blob.
C14_RecordOrder ==
    ReconstructDone =>
        LET m == encode_call.message
            blob == encode_call.result
            sizes == RecordSizes(m)
        IN /\ Len(blob) = SumTo(sizes, Len(sizes))
           /\ \A k \in 1..Len(sizes) : blob[Offset(m, k) + 2] = RecordTypes(m)[k]
           /\ \A k \in 1..Len(m.service_uuids) :
                 SubSeq(blob, Offset(m, k) + 3, Offset(m, k) + sizes[k])
                    = Reverse(FromHex(Remove(m.service_uuids[k], "-")))
           /\ ( /\ m.service_uuids = << >>
                /\ m.manufacturer_data = << >>
                /\ m.service_data = << >> ) => blob = << >>

\* C14 happens: a blob was built from two service ids (in an order that is
\* not the sorted one), two vendor entries and two service-data entries
C14_Witness ==
    /\ ReconstructDone
    /\ encode_call.message.service_uuids = <<UUID_BATTERY, UUID_EDDYSTONE>>
    /\ Len(encode_call.message.manufacturer_data) = 2
    /\ Len(encode_call.message.service_data) = 2
    /\ Len(encode_call.result) = 2 * 18 + 5 + 4 + 2 * 19

\* the framing of C15 on a message and its blob
RecordsFramed(m, blob) ==
    LET ns == Len(m.service_uuids)
        nm == Len(m.manufacturer_data)
    IN /\ \A k \in 1..Len(RecordSizes(m)) :
             blob[Offset(m, k) + 1] = RecordSizes(m)[k] - 1
       /\ \A k \in 1..ns :
             /\ blob[Offset(m, k) + 1] = 17
             /\ UuidBytes(m.service_uuids[k]) = 16
       /\ \A k \in 1..nm :
             LET at == Offset(m, ns + k)
                 vendor_id == m.manufacturer_data[k][1]
                 data == m.manufacturer_data[k][2]
             IN /\ blob[at + 1] = 3 + Len(data)
                /\ blob[at + 3] = vendor_id % 256
                /\ blob[at + 4] = vendor_id \div 256
                /\ SubSeq(blob, at + 5, at + 4 + Len(data)) = data
       /\ \A k \in 1..Len(m.service_data) :
             LET at == Offset(m, ns + nm + k)
                 uuid_str == m.service_data[k][1]
                 data == m.service_data[k][2]
             IN /\ blob[at + 1] = 1 + UuidBytes(uuid_str) + Len(data)
                /\ SubSeq(blob, at + 3, at + 2 + UuidBytes(uuid_str))
                      = Reverse(FromHex(Remove(uuid_str, "-")))
                /\ SubSeq(blob, at + 3 + UuidBytes(uuid_str),
                          at + 2 + UuidBytes(uuid_str) + Len(data)) = data
       /\ ( /\ ns = 1 /\ nm = 1 /\ Len(m.service_data) = 1
            /\ Len(m.manufacturer_data[1][2]) = 4
            /\ Len(m.service_data[1][2]) = 2 )
          => /\ blob[1] = 17
             /\ blob[Offset(m, 2) + 1] = 7
             /\ blob[Offset(m, 3) + 1] = UuidBytes(m.service_data[1][1]) + 3

C15_RecordFramingFullUuids ==
    ( /\ ReconstructDone
      /\ \A k \in 1..Len(encode_call.message.service_uuids) :
            UuidBytes(encode_call.message.service_uuids[k]) = 16 )
    => RecordsFramed(encode_call.message, encode_call.result)

\* the code of a character of a UUID string (hex digits and hyphens)
CharCode(c) ==
    IF c = "-" THEN 45
    ELSE IF HexVal(c) < 10 THEN 48 + HexVal(c)
    ELSE IF c \in {"a", "b", "c", "d", "e", "f"} THEN 87 + HexVal(c)
    ELSE 55 + HexVal(c)

\* a < b for two strings, as Python compares them
LexLess(a, b) ==
    \E i \in 1..(Len(a) + 1) :
        /\ i <= Len(b) + 1
        /\ \A j \in 1..(i - 1) : a[j] = b[j]
        /\ IF i > Len(a) THEN i <= Len(b)
           ELSE i <= Len(b) /\ CharCode(a[i]) < CharCode(b[i])

\* the messages that differ from m only in the insertion order of their
\* vendor data and service data (maps of at most two entries)
Reorderings(m) ==
    {[m EXCEPT !.manufacturer_data = md, !.service_data = sd] :
        md \in {m.manufacturer_data, Reverse(m.manufacturer_data)},
        sd \in {m.service_data, Reverse(m.service_data)}}

\* C16: in every blob the vendor records are in ascending order of vendor
\* id and the service-data records in ascending order of UUID key, and the
\* messages that differ only in the insertion order of the two maps yield
\* the same blob.
C16_CanonicalOrder ==
    ReconstructDone =>
        LET m == encode_call.message
            blob == encode_call.result
            ns == Len(m.service_uuids)
            vendor_id(k) == blob[Offset(m, ns + k) + 3]
                               + 256 * blob[Offset(m, ns + k) + 4]
        IN /\ \A i, j \in 1..Len(m.manufacturer_data) :
                 i < j => vendor_id(i) < vendor_id(j)
           /\ \A i, j \in 1..Len(m.service_data) :
                 i < j => LexLess(m.service_data[i][1], m.service_data[j][1])
           /\ \A m2 \in Reorderings(m) :
                 ~ReconstructRaises(m2) /\ reconstruct_advertising_data(m2) = blob

\* the fields of a line, split at its commas
RECURSIVE Split(_)
Split(s) ==
    IF \A i \in 1..Len(s) : s[i] # "," THEN <<s>>
    ELSE LET i == CHOOSE i \in 1..Len(s) :
                     s[i] = "," /\ \A j \in 1..(i - 1) : s[j] # ","
         IN <<SubSeq(s, 1, i - 1)>> \o Split(SubSeq(s, i + 1, Len(s)))

\* the number a list of decimal digits writes
RECURSIVE NatValue(_)
NatValue(d) ==
    IF d = << >> THEN 0
    ELSE 10 * NatValue(SubSeq(d, 1, Len(d) - 1)) + HexVal(d[Len(d)])

\* a number below 1000 in three digits
ThreeDigits(k) ==
    <<HEX_UPPER[(k \div 100) + 1], HEX_UPPER[((k \div 10) % 10) + 1],
      HEX_UPPER[(k % 10) + 1]>>

\* C17: the text to_gprp_format returns is {"data":["<line>"],"mqtt_topic":
\* "<topic>"}, nothing else; the line has the six comma-separated fields
\* $GPRP, the gateway id, the address without its colons in upper case, the
\* rssi, the blob in upper-case hex, and timestamp_ms div 1000, a point and
\* timestamp_ms mod 1000 in three digits; for timestamp_ms 1700000000000,
\* address AA:BB:CC:DD:EE:FF, rssi -67, no data and gateway id A1B2C3D4E5F6
\* the line is $GPRP,A1B2C3D4E5F6,AABBCCDDEEFF,-67,,1700000000.000.
C17_CsvEnvelope ==
    GprpDone =>
        LET m == encode_call.message
            text == encode_call.result
            tail == JSON_MIDDLE \o JsonEscape(encode_call.topic) \o JSON_CLOSE
            line == SubSeq(text, Len(JSON_OPEN) + 1, Len(text) - Len(tail))
            f == Split(line)
            blob == reconstruct_advertising_data(m)
        IN /\ text = JSON_OPEN \o line \o tail
           /\ \A i \in 1..Len(line) : line[i] \notin {"\"", "\\"}
           /\ Len(f) = 6
           /\ f[1] = <<"$", "G", "P", "R", "P">>
           /\ f[2] = encode_call.gateway_mac
           /\ f[3] = Upper(Remove(m.device_address, ":"))
           /\ f[4] = (IF m.rssi < 0 THEN <<"-">> ELSE << >>)
                        \o StrNat(IF m.rssi < 0 THEN -m.rssi ELSE m.rssi)
           /\ Len(f[5]) = 2 * Len(blob)
           /\ \A i \in 1..Len(f[5]) : f[5][i] \in Range(HEX_UPPER)
           /\ FromHex(f[5]) = blob
           /\ Len(m.timestamp_ms) <= 9 =>
                 f[6] = StrNat(NatValue(m.timestamp_ms) \div 1000) \o <<".">>
                           \o ThreeDigits(NatValue(m.timestamp_ms) % 1000)
           /\ ( /\ m.timestamp_ms = <<"1", "7", "0", "0", "0", "0", "0", "0", "0", "0", "0", "0", "0">>
                /\ m.device_address = ADDR_UPPER
                /\ m.rssi = -67
                /\ blob = << >>
                /\ encode_call.gateway_mac = GATEWAY_MAC )
              => line = 
                   <<"$", "G", "P", "R", "P", ",", "A", "1", "B", "2", "C", "3", "D", "4", "E", "5", "F", "6", ",", "A", "A", "B", "B", "C", "C", "D", "D", "E", "E", "F", "F", ",", "-", "6", "7", ",", ",", "1", "7", "0", "0", "0", "0", "0", "0", "0", "0", ".", "0", "0", "0">>

\* C17 happens: the envelope of a message of 5 ms with a lower-case address
\* and vendor data was rendered
C17_Witness ==
    /\ GprpDone
    /\ encode_call.message.timestamp_ms = <<"5">>
    /\ encode_call.message.device_address = ADDR_LOWER
    /\ encode_call.message.manufacturer_data = << <<WIDE_ID, <<255>> >> >>
    /\ encode_call.message.rssi = -67
    /\ encode_call.topic = QUOTED_TOPIC

----------------------------------------------------------------------------
(* BluetoothGateway: C18 - C20 *)

\* C18: under a policy load_config accepts (max_buffer_size >= 1), the
\* buffer never holds more than max_buffer_size messages.
C18_BufferCapped == max_buffer_size >= 1 => size <= max_buffer_size

\* C19: with publish_interval_sec = 0, every normal flush that drains a
\* buffer that is not empty returns exactly one message.
C19_ImmediateSingletonBatches ==
    [][(FlushStep /\ publish_interval_sec = 0 /\ buffer # << >>)
          => Len(last_drain'.messages) = 1]_vars

\* C20: once the shutdown drain is taken nothing is buffered any more: the
\* buffer is empty from then on, until and after the gateway has stopped.
C20_ShutdownStopsIntake == last_drain.kind = "shutdown" => buffer = << >>

----------------------------------------------------------------------------
(* BLEMessage and MessageBuffer: C21 - C25 *)

\* C21: the messages a drain returns are, field by field (timestamp_ms
\* included), messages that were added since the previous drain; and the
\* message a rendering has read (the CSV envelope with its binary
\* reconstruction in a normal flush, the full JSON at shutdown) is as it
\* was drained.
C21_EventsImmutable ==
    /\ [](\A k \in 1..Len(last_drain.messages) :
              last_drain.messages[k] \in Range(last_drain.added))
    /\ [][\A k \in 1..Len(buffer') :
              buffer'[k] \in Range(buffer) \/ buffer'[k] = added'[Len(added')]]_vars
    /\ [][\A i \in 1..Len(NewCalls) : NewCalls[i].message \in Range(buffer)]_vars

\* C21 happens: a message added at time 1 was drained by a normal flush,
\* rendered and published, and another by the shutdown drain
C21_Witness ==
    /\ Len(sink) = 2
    /\ sink[1].fmt = "gprp" /\ sink[1].message.timestamp_ms = 1000
    /\ sink[1].message.device_address = ADDR_LOWER
    /\ sink[2].fmt = "json"
    /\ sink[2].message \in Range(last_drain.messages)
    /\ pc = "stopped"

\* C22: a get_messages call on an empty buffer returns the empty list,
\* leaves the buffer empty and sets last_flush_time to the current time;
\* buffer_flushes, messages_published and publish_errors stay as they are.
C22_EmptyDrain ==
    [][(DrainStep /\ buffer = << >>) =>
          /\ last_drain'.messages = << >>
          /\ buffer' = << >>
          /\ last_flush_time' = now
          /\ stats'.buffer_flushes = stats.buffer_flushes
          /\ stats'.messages_published = stats.messages_published
          /\ stats'.publish_errors = stats.publish_errors
          /\ sink' = sink]_vars

\* C22 happens: an empty drain was taken after time 0 and moved the timer
C22_Witness ==
    /\ last_drain.kind # "none"
    /\ last_drain.messages = << >>
    /\ last_drain.added = << >>
    /\ last_drain.at > 0
    /\ last_flush_time = last_drain.at
    /\ stats.buffer_flushes = 0

\* C23: when the buffer does not throttle (throttle_control false, or
\* publish_interval_sec = 0), the pending messages are the messages added
\* since the previous drain, in arrival order, and a drain returns exactly
\* them.
C23_UnthrottledKeepsAll ==
    ~Throttling => (buffer = added /\ last_drain.messages = last_drain.added)

\* C23 happens: without throttle_control, in windowed mode, two messages of
\* one address were added and drained
C23_Witness ==
    /\ ~throttle_control
    /\ publish_interval_sec > 0
    /\ Len(last_drain.messages) = 2
    /\ last_drain.messages[1].device_address = last_drain.messages[2].device_address
    /\ last_drain.messages[1].oid < last_drain.messages[2].oid

\* C24: the defaults are throttle_control true and publish_interval_sec 0,
\* and with throttle_control true and publish_interval_sec = 0 the buffer
\* does not throttle: messages of one address added before a drain are all
\* pending, and the drain returns them all.
C24_ThrottleNeedsInterval ==
    /\ DEFAULT_THROTTLE_CONTROL /\ DEFAULT_PUBLISH_INTERVAL = 0
    /\ (throttle_control /\ publish_interval_sec = 0) =>
          /\ \A i \in 1..Len(added) : added[i] \in Range(buffer)
          /\ Len(buffer) = Len(added)
          /\ \A i \in 1..Len(last_drain.added) :
                last_drain.added[i] \in Range(last_drain.messages)
          /\ Len(last_drain.messages) = Len(last_drain.added)

\* C24 happens: with throttle_control and interval 0, two messages of one
\* address were returned by one normal flush
C24_Witness ==
    /\ throttle_control
    /\ publish_interval_sec = 0
    /\ last_drain.kind = "flush"
    /\ Len(last_drain.messages) = 2
    /\ last_drain.messages[1].device_address = last_drain.messages[2].device_address

\* a message of a list is superseded: a later one of the list has its address
Superseded(messages, i) ==
    \E j \in (i + 1)..Len(messages) :
        messages[j].device_address = messages[i].device_address

\* C25: no add falls inside a drain: a drain returns the pending messages
\* as they are when it is called and leaves none; so every message added
\* since the previous drain is pending or (when throttling) superseded, every
\* message added before a drain was returned by it or superseded, and a
\* message that was returned is never pending again.
C25_DrainAtomic ==
    /\ [][DrainStep => (last_drain'.messages = buffer /\ buffer' = << >>
                        /\ last_drain'.added = added /\ added' = << >>)]_vars
    /\ [](\A i \in 1..Len(added) :
              added[i] \in Range(buffer) \/ (Throttling /\ Superseded(added, i)))
    /\ [](\A i \in 1..Len(last_drain.added) :
              \/ last_drain.added[i] \in Range(last_drain.messages)
              \/ (Throttling /\ Superseded(last_drain.added, i)))
    /\ [](\A i \in 1..Len(buffer), k \in 1..Len(last_drain.messages) :
              buffer[i].oid > last_drain.messages[k].oid)

\* C25 happens: a detection was handled between two polls, its message
\* returned by the second, and the next detection is pending
C25_Witness ==
    /\ last_drain.kind = "flush"
    /\ Len(last_drain.messages) = 1
    /\ Len(buffer) = 1
    /\ buffer[1].oid = 2
    /\ last_drain.messages[1].oid = 1
    /\ pc = "sleep"

----------------------------------------------------------------------------
(* BluetoothGateway and MessageBuffer: C26 - C30 *)

\* running was set to False by the signal handler and run has not yet left
\* its loop
SignalPending == pc \in {"loop", "sleep"} /\ ~running

C27_CounterConsistency ==
    /\ [](/\ stats.messages_published + stats.publish_errors
               <= stats.messages_buffered
          /\ stats.messages_buffered <= stats.devices_seen)
    /\ [][\A c \in DOMAIN stats : stats'[c] >= stats[c]]_vars

\* C27 happens: of two buffered messages of one address the throttling
\* buffer kept one, which a normal flush published
C27_Witness ==
    /\ Throttling
    /\ stats.devices_seen = 2
    /\ stats.messages_buffered = 2
    /\ stats.messages_published + stats.publish_errors = 1
    /\ last_drain.kind = "flush"
    /\ buffer = << >>

\* C28: messages_filtered + devices_seen is the number of detection
\* callbacks handled so far, and each callback adds one to exactly one of
\* the two counters.
C28_FilteredOrSeen ==
    /\ [](stats.messages_filtered + stats.devices_seen = ndetect)
    /\ [][ndetect' # ndetect =>
            \/ /\ stats'.messages_filtered = stats.messages_filtered + 1
               /\ stats'.devices_seen = stats.devices_seen
            \/ /\ stats'.messages_filtered = stats.messages_filtered
               /\ stats'.devices_seen = stats.devices_seen + 1]_vars

\* C28 happens: two callbacks were handled, one detection rejected and one
\* accepted
C28_Witness ==
    /\ ndetect = 2
    /\ stats.messages_filtered = 1
    /\ stats.devices_seen = 1

\* the device addresses of a list of messages
Addresses(messages) == {messages[i].device_address : i \in 1..Len(messages)}

\* C29: when the buffer throttles, no two pending messages have one
\* address, size() is the number of distinct addresses added since the
\* last drain, and adds of a single address do not fill a buffer whose
\* max_buffer_size is greater than 1.
C29_OnePerAddress ==
    Throttling =>
        /\ \A i, j \in 1..Len(buffer) :
              i # j => buffer[i].device_address # buffer[j].device_address
        /\ size = Cardinality(Addresses(added))
        /\ (Cardinality(Addresses(added)) = 1 /\ max_buffer_size > 1)
              => size < max_buffer_size

\* C29 happens: two messages of one address were added to a throttling
\* buffer with max_buffer_size 2, and one is pending
C29_Witness ==
    /\ Throttling
    /\ max_buffer_size = 2
    /\ Len(added) = 2
    /\ Cardinality(Addresses(added)) = 1
    /\ size = 1

\* C30: last_flush_time changes only in a step that calls get_messages; a
\* step that calls add_message (and then size()) leaves last_flush_time as
\* it is and the buffer as add_message made it; a poll in which
\* should_flush() answers no leaves the buffer and last_flush_time as they
\* are.
C30_ReadOnlyQueries ==
    /\ [][last_flush_time' # last_flush_time => DrainStep]_vars
    /\ [][AddStep => /\ last_flush_time' = last_flush_time
                     /\ buffer' = add_message(added'[Len(added')])]_vars
    /\ [][(Poll /\ ~should_flush) =>
            (buffer' = buffer /\ last_flush_time' = last_flush_time)]_vars

\* C30 happens: after a drain at time 0 a message was added at time 1, and
\* the timer still reads 0
C30_Witness ==
    /\ last_drain.kind = "flush"
    /\ last_drain.at = 0
    /\ now = 1
    /\ Len(added) = 1
    /\ added[1].timestamp_ms = 1000
    /\ size = 1
    /\ last_flush_time = 0

----------------------------------------------------------------------------
(* The flush poll: C31 *)

\* the message of the detection numbered k waits in the buffer
Waiting(k) == \E i \in 1..Len(buffer) : buffer[i].oid = k

\* publish was called with the message of the detection numbered k
HandedToSink(k) == \E i \in 1..Len(sink) : sink[i].message.oid = k

\* the message of the detection numbered k was replaced in the dict by a
\* later one of its address
SupersededInBuffer(k) ==
    /\ Throttling
    /\ \E i \in 1..Len(added) : added[i].oid = k /\ Superseded(added, i)

\* the message of the detection numbered k was returned by the last poll
\* and its rendering raised: it was counted as an error and not published
DroppedByRendering(k) ==
    /\ last_drain.kind = "flush"
    /\ \E i \in 1..Len(last_drain.messages) :
          /\ last_drain.messages[i].oid = k
          /\ ToGprpRaises(last_drain.messages[i])

\* run is in its loop (the final drain has not been taken), and the clock,
\* which stops at MaxTime, gets to the end of the current window
WindowEndsInTime ==
    /\ pc \in {"loop", "sleep"}
    /\ last_flush_time + publish_interval_sec <= MaxTime

\* the message of the detection numbered k leaves the buffer in this step
Leaves(k) == Waiting(k) /\ ~Waiting(k)'

\* C31 as stated: a buffer that is not empty while run is in its loop is
\* eventually drained, and every message that leaves the buffer has been
\* handed to the sink or superseded.
C31_EveryEventHanded ==
    /\ (buffer # << >> /\ WindowEndsInTime) ~> (buffer = << >>)
    /\ [][\A k \in 1..MaxDetect :
            Leaves(k) => (HandedToSink(k) \/ SupersededInBuffer(k))']_vars

\* C31: no message waits in the buffer forever.  With the sleeps of run
\* ending and the clock advancing, a buffer that is not empty while run is
\* in its loop is eventually drained, whole, with no further detection and
\* no full buffer needed; a message leaves the buffer only handed to the
\* sink, or superseded by a later message of its address when throttling,
\* or dropped and counted because its rendering raised.
C31_NoEventWaitsForever ==
    /\ (buffer # << >> /\ WindowEndsInTime) ~> (buffer = << >>)
    /\ [][\A k \in 1..MaxDetect :
            Leaves(k) => (\/ HandedToSink(k)
                          \/ SupersededInBuffer(k)
                          \/ DroppedByRendering(k))']_vars

\* C31 happens: a single message, in a buffer with room for more, waited
\* until the window ended and was then published by a poll, without any
\* further detection
C31_Witness ==
    /\ publish_interval_sec = 2
    /\ max_buffer_size > 1
    /\ ndetect = 1
    /\ running
    /\ last_drain.kind = "flush"
    /\ last_drain.at = 2
    /\ Len(last_drain.messages) = 1
    /\ last_drain.messages[1].timestamp_ms < 2000
    /\ HandedToSink(1)

====
